---- MODULE Spec2Model ----
(***************************************************************************)
(* Model of the xv6 buffer cache of kernel/bio.c: a pool of NBUF buffers   *)
(* hashed by block number into NBUCKET doubly-linked bucket lists, one     *)
(* spinlock per bucket, one master spinlock for the miss path and one      *)
(* sleep-lock per buffer.  Every thread repeatedly calls bread, bwrite,    *)
(* brelse, bpin and bunpin; each action below is one atomic step of one    *)
(* of these functions between two points at which other threads may run.   *)
(***************************************************************************)
EXTENDS Integers, FiniteSets, TLC

\* ------------------------------------------------------------- constants
NBUCKET == 13

\* the value of an initialised, unheld spinlock or sleep-lock
Unlocked == 0

\* ---------------------------------------------------------------- bounds
NBUF == 2
NTHREADS == 2
MaxDev == 1
MaxBlock == 1
MaxPin == 1

Slots == 0 .. (NBUF - 1)
Buckets == 0 .. (NBUCKET - 1)
Threads == 1 .. NTHREADS
Devs == 0 .. MaxDev
BlockNos == 0 .. MaxBlock

\* list nodes: the buffers bcache.buf[0..NBUF-1] and the heads bcache.head[i]
Head(i) == NBUF + i
Nodes == 0 .. (NBUF + NBUCKET - 1)

HASH(x) == x % NBUCKET

VARIABLES
  dev,      \* dev[b]      : buf.dev
  blockno,  \* blockno[b]  : buf.blockno
  valid,    \* valid[b]    : buf.valid
  refcnt,   \* refcnt[b]   : buf.refcnt
  next,     \* next[n]     : buf.next, for buffers and heads
  prev,     \* prev[n]     : buf.prev
  lock,     \* lock[i]     : holder of bcache.lock[i], or Unlocked
  master,   \* holder of bcache.master, or Unlocked
  slock,    \* slock[b]    : holder of the sleep-lock buf.lock, or Unlocked
  pc,       \* pc[t]       : position of thread t
  adev,     \* adev[t]     : argument dev of the running bget
  ablk,     \* ablk[t]     : argument blockno of the running bget
  bp,       \* bp[t]       : the local b (a buffer index; NBUF is one past the end)
  ch,       \* ch[t]       : the local current_h of bget / h of brelse, bpin, bunpin
  pins,     \* pins[t][b]  : pins of b by t not yet undone by bunpin
  nread,    \* nread[b]    : transfers-in into b since its identity was assigned
  full      \* full[t]     : every buffer was in use at some instant of t's bget

vars == <<dev, blockno, valid, refcnt, next, prev, lock, master, slock,
          pc, adev, ablk, bp, ch, pins, nread, full>>

\* ------------------------------------------------------------ list links
\* an insertion that was left out: the lists stay as they are
LinkFrontForgotten(L, h, b) == L

\* an insertion of b at the back of the list of bucket h
LinkBack(L, h, b) ==
  LET last == L.prev[Head(h)]
      nx1 == [L.next EXCEPT ![b] = Head(h)]
      pv1 == [L.prev EXCEPT ![b] = last]
      nx2 == [nx1 EXCEPT ![last] = b]
      pv2 == [pv1 EXCEPT ![Head(h)] = b]
  IN  [next |-> nx2, prev |-> pv2]

\* lines 119-122: insert b at the front of the list of bucket h
LinkFront(L, h, b) ==
  LET first == L.next[Head(h)]
      nx1 == [L.next EXCEPT ![b] = first]
      pv1 == [L.prev EXCEPT ![b] = Head(h)]
      pv2 == [pv1 EXCEPT ![first] = b]
      nx2 == [nx1 EXCEPT ![Head(h)] = b]
  IN  [next |-> nx2, prev |-> pv2]

\* a removal that repairs the next pointer of the predecessor only
UnlinkNextOnly(L, b) ==
  [next |-> [L.next EXCEPT ![L.prev[b]] = L.next[b]], prev |-> L.prev]

\* lines 117-118: take b out of the list it is in
Unlink(L, b) ==
  LET nx1 == [L.next EXCEPT ![L.prev[b]] = L.next[b]]
      pv1 == [L.prev EXCEPT ![L.next[b]] = L.prev[b]]
  IN  [next |-> nx1, prev |-> pv1]

\* binit: every head is an empty ring, then buffers 0 .. k-1 are put, in
\* index order, at the front of bucket 0
RECURSIVE BinitLinks(_)
BinitLinks(k) ==
  IF k = 0
  THEN [next |-> [n \in Nodes |-> n], prev |-> [n \in Nodes |-> n]]
  ELSE LinkFront(BinitLinks(k - 1), 0, k - 1)

Init ==
  /\ dev = [b \in Slots |-> 0]
  /\ blockno = [b \in Slots |-> 0]
  /\ valid = [b \in Slots |-> FALSE]
  /\ refcnt = [b \in Slots |-> 0]
  /\ next = BinitLinks(NBUF).next
  /\ prev = BinitLinks(NBUF).prev
  /\ lock = [i \in Buckets |-> Unlocked]
  /\ master = Unlocked
  /\ slock = [b \in Slots |-> Unlocked]
  /\ pc = [t \in Threads |-> "idle"]
  /\ adev = [t \in Threads |-> 0]
  /\ ablk = [t \in Threads |-> 0]
  /\ bp = [t \in Threads |-> 0]
  /\ ch = [t \in Threads |-> 0]
  /\ pins = [t \in Threads |-> [b \in Slots |-> 0]]
  /\ nread = [b \in Slots |-> 0]
  /\ full = [t \in Threads |-> FALSE]

\* ---------------------------------------------------- history of a call
\* the positions of a thread inside bget, from its first line to its return
\* or its panic
BgetPcs == {"lookup", "acq_master", "scan", "acq_donor", "donor_check",
            "ss_rel_master", "ss_rel_home", "st_rel_donor", "st_rel_home",
            "st_rel_master", "f_rel_master", "f_rel_home", "acq_sleep"}

AllBusy == \A b \in Slots : refcnt[b] > 0

\* full[t] records, while t is inside bget (and after its panic), whether
\* every buffer had refcnt > 0 in some state since that call began
FullStep ==
  full' = [t \in Threads |->
             IF pc'[t] \in BgetPcs
             THEN (pc[t] \in BgetPcs /\ full[t]) \/ AllBusy'
             ELSE IF pc'[t] = "panic_nobuf" THEN full[t]
             ELSE FALSE]

\* a function returns (or panics): its arguments and locals are dead
Forget(t) ==
  /\ adev' = [adev EXCEPT ![t] = 0]
  /\ ablk' = [ablk EXCEPT ![t] = 0]
  /\ bp' = [bp EXCEPT ![t] = 0]
  /\ ch' = [ch EXCEPT ![t] = 0]

\* ------------------------------------------------------------------ bget
\* a lookup that overlooks a buffer whose contents are not read yet
MatchValidOnly(b, d, k) == dev[b] = d /\ blockno[b] = k /\ valid[b]

\* a lookup that compares the block number alone
MatchBlockOnly(b, d, k) == blockno[b] = k

\* line 75: the test of the lookup loop
Match(b, d, k) == dev[b] = d /\ blockno[b] = k

\* lines 73-82: walk the list of bucket h from node b; the result is the
\* first buffer carrying (d, k), or the head when the walk comes round
RECURSIVE Walk(_, _, _, _)
Walk(b, h, d, k) ==
  IF b = Head(h) THEN Head(h)
  ELSE IF Match(b, d, k) THEN b
  ELSE Walk(next[b], h, d, k)

\* a victim test that lets a buffer with one holder through
IsFreeOffByOne(b) == refcnt[b] <= 1

\* lines 94 and 110: the test that makes a buffer a victim
IsFree(b) == refcnt[b] = 0

\* a scan that begins at the last buffer of the pool
ScanStartLast == NBUF - 1

\* line 87: the scan begins at bcache.buf, the buffer of index 0
ScanStart == 0

\* lines 99 and 114: the reference count a claimed buffer gets
ClaimRef == 1

\* lines 69-70: h = HASH(blockno); acquire(&bcache.lock[h])
BgetLockHome(t, d, k) ==
  /\ pc[t] = "idle"
  /\ lock[HASH(k)] = Unlocked
  /\ lock' = [lock EXCEPT ![HASH(k)] = t]
  /\ adev' = [adev EXCEPT ![t] = d]
  /\ ablk' = [ablk EXCEPT ![t] = k]
  /\ pc' = [pc EXCEPT ![t] = "lookup"]
  /\ UNCHANGED <<dev, blockno, valid, refcnt, next, prev, master, slock,
                 bp, ch, pins, nread>>
  /\ FullStep

\* lines 73-82 (hit: refcnt++, release the bucket) or fall through to line 85
BgetLookup(t) ==
  /\ pc[t] = "lookup"
  /\ LET h == HASH(ablk[t])
         b == Walk(next[Head(h)], h, adev[t], ablk[t])
     IN  IF b # Head(h)
         THEN /\ refcnt' = [refcnt EXCEPT ![b] = @ + 1]
              /\ lock' = [lock EXCEPT ![h] = Unlocked]
              /\ bp' = [bp EXCEPT ![t] = b]
              /\ pc' = [pc EXCEPT ![t] = "acq_sleep"]
         ELSE /\ pc' = [pc EXCEPT ![t] = "acq_master"]
              /\ UNCHANGED <<refcnt, lock, bp>>
  /\ UNCHANGED <<dev, blockno, valid, next, prev, master, slock,
                 adev, ablk, ch, pins, nread>>
  /\ FullStep

\* line 85: acquire(&bcache.master); line 87: b = bcache.buf
BgetAcquireMaster(t) ==
  /\ pc[t] = "acq_master"
  /\ master = Unlocked
  /\ master' = t
  /\ bp' = [bp EXCEPT ![t] = ScanStart]
  /\ pc' = [pc EXCEPT ![t] = "scan"]
  /\ UNCHANGED <<dev, blockno, valid, refcnt, next, prev, lock, slock,
                 adev, ablk, ch, pins, nread>>
  /\ FullStep

\* lines 87-107: one iteration of the scan up to the donor's acquire, or the
\* end of the loop
BgetScan(t) ==
  /\ pc[t] = "scan"
  /\ LET b == bp[t]
         h == HASH(ablk[t])
     IN  IF b = NBUF
         THEN /\ pc' = [pc EXCEPT ![t] = "f_rel_master"]
              /\ UNCHANGED <<dev, blockno, valid, refcnt, nread, bp, ch>>
         ELSE IF HASH(blockno[b]) = h
         THEN IF IsFree(b)
              THEN /\ dev' = [dev EXCEPT ![b] = adev[t]]
                   /\ blockno' = [blockno EXCEPT ![b] = ablk[t]]
                   /\ valid' = [valid EXCEPT ![b] = FALSE]
                   /\ refcnt' = [refcnt EXCEPT ![b] = ClaimRef]
                   /\ nread' = [nread EXCEPT ![b] = 0]
                   /\ ch' = [ch EXCEPT ![t] = h]
                   /\ pc' = [pc EXCEPT ![t] = "ss_rel_master"]
                   /\ UNCHANGED bp
              ELSE /\ bp' = [bp EXCEPT ![t] = b + 1]
                   /\ ch' = [ch EXCEPT ![t] = h]
                   /\ UNCHANGED <<dev, blockno, valid, refcnt, nread, pc>>
         ELSE /\ ch' = [ch EXCEPT ![t] = HASH(blockno[b])]
              /\ pc' = [pc EXCEPT ![t] = "acq_donor"]
              /\ UNCHANGED <<dev, blockno, valid, refcnt, nread, bp>>
  /\ UNCHANGED <<next, prev, lock, master, slock, adev, ablk, pins>>
  /\ FullStep

\* line 109: acquire(&bcache.lock[current_h])
BgetAcquireDonor(t) ==
  /\ pc[t] = "acq_donor"
  /\ lock[ch[t]] = Unlocked
  /\ lock' = [lock EXCEPT ![ch[t]] = t]
  /\ pc' = [pc EXCEPT ![t] = "donor_check"]
  /\ UNCHANGED <<dev, blockno, valid, refcnt, next, prev, master, slock,
                 adev, ablk, bp, ch, pins, nread>>
  /\ FullStep

\* lines 110-122 (claim the buffer and move it to the front of bucket h) or
\* line 130 (release the donor and go on with the next buffer)
BgetDonorCheck(t) ==
  /\ pc[t] = "donor_check"
  /\ LET b == bp[t]
         h == HASH(ablk[t])
         L == LinkFront(Unlink([next |-> next, prev |-> prev], b), h, b)
     IN  IF IsFree(b)
         THEN /\ dev' = [dev EXCEPT ![b] = adev[t]]
              /\ blockno' = [blockno EXCEPT ![b] = ablk[t]]
              /\ valid' = [valid EXCEPT ![b] = FALSE]
              /\ refcnt' = [refcnt EXCEPT ![b] = ClaimRef]
              /\ nread' = [nread EXCEPT ![b] = 0]
              /\ next' = L.next
              /\ prev' = L.prev
              /\ pc' = [pc EXCEPT ![t] = "st_rel_donor"]
              /\ UNCHANGED <<lock, bp>>
         ELSE /\ lock' = [lock EXCEPT ![ch[t]] = Unlocked]
              /\ bp' = [bp EXCEPT ![t] = b + 1]
              /\ pc' = [pc EXCEPT ![t] = "scan"]
              /\ UNCHANGED <<dev, blockno, valid, refcnt, nread, next, prev>>
  /\ UNCHANGED <<master, slock, adev, ablk, ch, pins>>
  /\ FullStep

\* a path that goes on without the release of the bucket lock
ReleaseBucketForgotten(t, p, q, i) ==
  /\ pc[t] = p
  /\ pc' = [pc EXCEPT ![t] = q]
  /\ UNCHANGED <<dev, blockno, valid, refcnt, next, prev, lock, master, slock,
                 adev, ablk, bp, ch, pins, nread>>
  /\ FullStep

\* a release of a bucket lock that takes thread t from position p to q
ReleaseBucket(t, p, q, i) ==
  /\ pc[t] = p
  /\ lock' = [lock EXCEPT ![i] = Unlocked]
  /\ pc' = [pc EXCEPT ![t] = q]
  /\ UNCHANGED <<dev, blockno, valid, refcnt, next, prev, master, slock,
                 adev, ablk, bp, ch, pins, nread>>
  /\ FullStep

\* a path that goes on without the release of the master lock
ReleaseMasterForgotten(t, p, q) ==
  /\ pc[t] = p
  /\ pc' = [pc EXCEPT ![t] = q]
  /\ UNCHANGED <<dev, blockno, valid, refcnt, next, prev, lock, master, slock,
                 adev, ablk, bp, ch, pins, nread>>
  /\ FullStep

\* a release of the master lock that takes thread t from position p to q
ReleaseMaster(t, p, q) ==
  /\ pc[t] = p
  /\ master' = Unlocked
  /\ pc' = [pc EXCEPT ![t] = q]
  /\ UNCHANGED <<dev, blockno, valid, refcnt, next, prev, lock, slock,
                 adev, ablk, bp, ch, pins, nread>>
  /\ FullStep

\* lines 101-102: the releases after a claim in the home bucket
BgetSameRelMaster(t) == ReleaseMaster(t, "ss_rel_master", "ss_rel_home")
BgetSameRelHome(t) == ReleaseBucket(t, "ss_rel_home", "acq_sleep", HASH(ablk[t]))

\* lines 124-126: the releases after a steal from a donor bucket
BgetStealRelDonor(t) ==
  /\ pc[t] = "st_rel_donor"
  /\ lock' = [lock EXCEPT ![ch[t]] = Unlocked]
  /\ ch' = [ch EXCEPT ![t] = 0]
  /\ pc' = [pc EXCEPT ![t] = "st_rel_home"]
  /\ UNCHANGED <<dev, blockno, valid, refcnt, next, prev, master, slock,
                 adev, ablk, bp, pins, nread>>
  /\ FullStep

BgetStealRelHome(t) == ReleaseBucket(t, "st_rel_home", "st_rel_master", HASH(ablk[t]))
BgetStealRelMaster(t) == ReleaseMaster(t, "st_rel_master", "acq_sleep")

\* lines 132-134: the releases after a scan that found nothing, then the panic
BgetFailRelMaster(t) == ReleaseMaster(t, "f_rel_master", "f_rel_home")
BgetFailRelHome(t) ==
  /\ pc[t] = "f_rel_home"
  /\ lock' = [lock EXCEPT ![HASH(ablk[t])] = Unlocked]
  /\ pc' = [pc EXCEPT ![t] = "panic_nobuf"]
  /\ Forget(t)
  /\ UNCHANGED <<dev, blockno, valid, refcnt, next, prev, master, slock,
                 pins, nread>>
  /\ FullStep

\* lines 79, 103, 127: acquiresleep(&b->lock); return b
BgetAcquireSleep(t) ==
  /\ pc[t] = "acq_sleep"
  /\ slock[bp[t]] = Unlocked
  /\ slock' = [slock EXCEPT ![bp[t]] = t]
  /\ pc' = [pc EXCEPT ![t] = "bread_check"]
  /\ UNCHANGED <<dev, blockno, valid, refcnt, next, prev, lock, master,
                 adev, ablk, bp, ch, pins, nread>>
  /\ FullStep

\* ----------------------------------------------------------------- bread
\* a bread that goes to the disk whatever the buffer holds
NeedsReadAlways(b) == TRUE

\* line 144: the test that decides on a transfer-in
NeedsRead(b) == ~valid[b]

\* lines 144-149: return a valid buffer, or go to the disk first
BreadCheck(t) ==
  /\ pc[t] = "bread_check"
  /\ IF NeedsRead(bp[t])
     THEN /\ pc' = [pc EXCEPT ![t] = "disk_read"]
          /\ UNCHANGED <<adev, ablk, bp, ch>>
     ELSE /\ pc' = [pc EXCEPT ![t] = "idle"]
          /\ Forget(t)
  /\ UNCHANGED <<dev, blockno, valid, refcnt, next, prev, lock, master, slock,
                 pins, nread>>
  /\ FullStep

\* lines 146-149: virtio_disk_rw(b, 0); b->valid = 1; return b
BreadDiskRead(t) ==
  /\ pc[t] = "disk_read"
  /\ valid' = [valid EXCEPT ![bp[t]] = TRUE]
  /\ nread' = [nread EXCEPT ![bp[t]] = @ + 1]
  /\ pc' = [pc EXCEPT ![t] = "idle"]
  /\ Forget(t)
  /\ UNCHANGED <<dev, blockno, refcnt, next, prev, lock, master, slock, pins>>
  /\ FullStep

\* ---------------------------------------------------------------- bwrite
\* a check that the sleep-lock is held, by whichever thread
HoldingSleepByAnyone(t, b) == slock[b] # Unlocked

\* lines 155 and 164: holdingsleep(&b->lock)
HoldingSleep(t, b) == slock[b] = t

\* lines 155-157: the check of the caller, then the transfer-out begins
Bwrite(t, b) ==
  /\ pc[t] = "idle"
  /\ IF HoldingSleep(t, b)
     THEN /\ bp' = [bp EXCEPT ![t] = b]
          /\ pc' = [pc EXCEPT ![t] = "disk_write"]
     ELSE /\ pc' = [pc EXCEPT ![t] = "panic_bwrite"]
          /\ UNCHANGED bp
  /\ UNCHANGED <<dev, blockno, valid, refcnt, next, prev, lock, master, slock,
                 adev, ablk, ch, pins, nread>>
  /\ FullStep

\* line 157: virtio_disk_rw(b, 1) returns
BwriteDiskWrite(t) ==
  /\ pc[t] = "disk_write"
  /\ pc' = [pc EXCEPT ![t] = "idle"]
  /\ Forget(t)
  /\ UNCHANGED <<dev, blockno, valid, refcnt, next, prev, lock, master, slock,
                 pins, nread>>
  /\ FullStep

\* ---------------------------------------------------------------- brelse
\* lines 164-169: the check of the caller, releasesleep, h = HASH(b->blockno)
Brelse(t, b) ==
  /\ pc[t] = "idle"
  /\ IF HoldingSleep(t, b)
     THEN /\ slock' = [slock EXCEPT ![b] = Unlocked]
          /\ bp' = [bp EXCEPT ![t] = b]
          /\ ch' = [ch EXCEPT ![t] = HASH(blockno[b])]
          /\ pc' = [pc EXCEPT ![t] = "brelse_acq"]
     ELSE /\ pc' = [pc EXCEPT ![t] = "panic_brelse"]
          /\ UNCHANGED <<slock, bp, ch>>
  /\ UNCHANGED <<dev, blockno, valid, refcnt, next, prev, lock, master,
                 adev, ablk, pins, nread>>
  /\ FullStep

\* lines 170, 179, 187: acquire(&bcache.lock[h]) of brelse, bpin, bunpin
AcquireBucketSkipped(t, p, q) ==
  /\ pc[t] = p
  /\ pc' = [pc EXCEPT ![t] = q]
  /\ UNCHANGED <<dev, blockno, valid, refcnt, next, prev, lock, master, slock,
                 adev, ablk, bp, ch, pins, nread>>
  /\ FullStep

AcquireBucket(t, p, q) ==
  /\ pc[t] = p
  /\ lock[ch[t]] = Unlocked
  /\ lock' = [lock EXCEPT ![ch[t]] = t]
  /\ pc' = [pc EXCEPT ![t] = q]
  /\ UNCHANGED <<dev, blockno, valid, refcnt, next, prev, master, slock,
                 adev, ablk, bp, ch, pins, nread>>
  /\ FullStep

BrelseAcquire(t) == AcquireBucket(t, "brelse_acq", "brelse_dec")

\* a release that also moves the buffer to the front of its list
BrelseDecPromotes(t) ==
  /\ pc[t] = "brelse_dec"
  /\ refcnt' = [refcnt EXCEPT ![bp[t]] = @ - 1]
  /\ LET L == LinkFront(Unlink([next |-> next, prev |-> prev], bp[t]),
                        ch[t], bp[t])
     IN  next' = L.next /\ prev' = L.prev
  /\ lock' = [lock EXCEPT ![ch[t]] = Unlocked]
  /\ pc' = [pc EXCEPT ![t] = "idle"]
  /\ Forget(t)
  /\ UNCHANGED <<dev, blockno, valid, master, slock, pins, nread>>
  /\ FullStep

\* lines 171-172: b->refcnt--; release(&bcache.lock[h])
BrelseDec(t) ==
  /\ pc[t] = "brelse_dec"
  /\ refcnt' = [refcnt EXCEPT ![bp[t]] = @ - 1]
  /\ lock' = [lock EXCEPT ![ch[t]] = Unlocked]
  /\ pc' = [pc EXCEPT ![t] = "idle"]
  /\ Forget(t)
  /\ UNCHANGED <<dev, blockno, valid, next, prev, master, slock, pins, nread>>
  /\ FullStep

\* ---------------------------------------------------------- bpin, bunpin
\* line 178: bpin(b) by a thread that holds b; h = HASH(b->blockno)
Bpin(t, b) ==
  /\ pc[t] = "idle"
  /\ HoldingSleep(t, b)
  /\ pins[t][b] < MaxPin
  /\ bp' = [bp EXCEPT ![t] = b]
  /\ ch' = [ch EXCEPT ![t] = HASH(blockno[b])]
  /\ pc' = [pc EXCEPT ![t] = "bpin_acq"]
  /\ UNCHANGED <<dev, blockno, valid, refcnt, next, prev, lock, master, slock,
                 adev, ablk, pins, nread>>
  /\ FullStep

BpinAcquire(t) == AcquireBucket(t, "bpin_acq", "bpin_inc")

\* lines 180-181: b->refcnt++; release(&bcache.lock[h])
BpinInc(t) ==
  /\ pc[t] = "bpin_inc"
  /\ refcnt' = [refcnt EXCEPT ![bp[t]] = @ + 1]
  /\ pins' = [pins EXCEPT ![t][bp[t]] = @ + 1]
  /\ lock' = [lock EXCEPT ![ch[t]] = Unlocked]
  /\ pc' = [pc EXCEPT ![t] = "idle"]
  /\ Forget(t)
  /\ UNCHANGED <<dev, blockno, valid, next, prev, master, slock, nread>>
  /\ FullStep

\* line 186: bunpin(b) by a thread that pinned b; h = HASH(b->blockno)
Bunpin(t, b) ==
  /\ pc[t] = "idle"
  /\ pins[t][b] > 0
  /\ bp' = [bp EXCEPT ![t] = b]
  /\ ch' = [ch EXCEPT ![t] = HASH(blockno[b])]
  /\ pc' = [pc EXCEPT ![t] = "bunpin_acq"]
  /\ UNCHANGED <<dev, blockno, valid, refcnt, next, prev, lock, master, slock,
                 adev, ablk, pins, nread>>
  /\ FullStep

BunpinAcquire(t) == AcquireBucket(t, "bunpin_acq", "bunpin_dec")

\* lines 188-189: b->refcnt--; release(&bcache.lock[h])
BunpinDec(t) ==
  /\ pc[t] = "bunpin_dec"
  /\ refcnt' = [refcnt EXCEPT ![bp[t]] = @ - 1]
  /\ pins' = [pins EXCEPT ![t][bp[t]] = @ - 1]
  /\ lock' = [lock EXCEPT ![ch[t]] = Unlocked]
  /\ pc' = [pc EXCEPT ![t] = "idle"]
  /\ Forget(t)
  /\ UNCHANGED <<dev, blockno, valid, next, prev, master, slock, nread>>
  /\ FullStep

\* ------------------------------------------------------- the whole system
\* a call of one of the five functions by an idle thread
Call(t) ==
  \/ \E d \in Devs, k \in BlockNos : BgetLockHome(t, d, k)
  \/ \E b \in Slots : Bwrite(t, b)
  \/ \E b \in Slots : Brelse(t, b)
  \/ \E b \in Slots : Bpin(t, b)
  \/ \E b \in Slots : Bunpin(t, b)

\* the next step of a thread that is inside a function
Cont(t) ==
  \/ BgetLookup(t)
  \/ BgetAcquireMaster(t)
  \/ BgetScan(t)
  \/ BgetAcquireDonor(t)
  \/ BgetDonorCheck(t)
  \/ BgetSameRelMaster(t)
  \/ BgetSameRelHome(t)
  \/ BgetStealRelDonor(t)
  \/ BgetStealRelHome(t)
  \/ BgetStealRelMaster(t)
  \/ BgetFailRelMaster(t)
  \/ BgetFailRelHome(t)
  \/ BgetAcquireSleep(t)
  \/ BreadCheck(t)
  \/ BreadDiskRead(t)
  \/ BwriteDiskWrite(t)
  \/ BrelseAcquire(t)
  \/ BrelseDec(t)
  \/ BpinAcquire(t)
  \/ BpinInc(t)
  \/ BunpinAcquire(t)
  \/ BunpinDec(t)

Next == \E t \in Threads : Call(t) \/ Cont(t)

Spec == Init /\ [][Next]_vars

\* the positions of a thread that is inside none of the five functions
QuietPcs == {"idle", "panic_nobuf", "panic_bwrite", "panic_brelse"}

\* the system when calls never overlap: a thread takes a step only while
\* every other thread is outside the cache's functions
Quiet(t) == \A u \in Threads \ {t} : pc[u] \in QuietPcs

SeqNext ==
  \E t \in Threads :
    \/ Quiet(t) /\ \E d \in Devs, k \in BlockNos : BgetLockHome(t, d, k)
    \/ Quiet(t) /\ \E b \in Slots : Bwrite(t, b)
    \/ Quiet(t) /\ \E b \in Slots : Brelse(t, b)
    \/ Quiet(t) /\ \E b \in Slots : Bpin(t, b)
    \/ Quiet(t) /\ \E b \in Slots : Bunpin(t, b)
    \/ Quiet(t) /\ BgetLookup(t)
    \/ Quiet(t) /\ BgetAcquireMaster(t)
    \/ Quiet(t) /\ BgetScan(t)
    \/ Quiet(t) /\ BgetAcquireDonor(t)
    \/ Quiet(t) /\ BgetDonorCheck(t)
    \/ Quiet(t) /\ BgetSameRelMaster(t)
    \/ Quiet(t) /\ BgetSameRelHome(t)
    \/ Quiet(t) /\ BgetStealRelDonor(t)
    \/ Quiet(t) /\ BgetStealRelHome(t)
    \/ Quiet(t) /\ BgetStealRelMaster(t)
    \/ Quiet(t) /\ BgetFailRelMaster(t)
    \/ Quiet(t) /\ BgetFailRelHome(t)
    \/ Quiet(t) /\ BgetAcquireSleep(t)
    \/ Quiet(t) /\ BreadCheck(t)
    \/ Quiet(t) /\ BreadDiskRead(t)
    \/ Quiet(t) /\ BwriteDiskWrite(t)
    \/ Quiet(t) /\ BrelseAcquire(t)
    \/ Quiet(t) /\ BrelseDec(t)
    \/ Quiet(t) /\ BpinAcquire(t)
    \/ Quiet(t) /\ BpinInc(t)
    \/ Quiet(t) /\ BunpinAcquire(t)
    \/ Quiet(t) /\ BunpinDec(t)

SeqSpec == Init /\ [][SeqNext]_vars

\* ------------------------------------------------------------ vocabulary
SameKey(b1, b2) == dev[b1] = dev[b2] /\ blockno[b1] = blockno[b2]

\* a buffer that holds its block or is being filled with it
Active(b) == valid[b] \/ refcnt[b] > 0

\* the thread that holds the spinlock thread t is spinning on, if any
Wanted(t) ==
  IF pc[t] = "acq_master" THEN master
  ELSE IF pc[t] \in {"acq_donor", "brelse_acq", "bpin_acq", "bunpin_acq"}
       THEN lock[ch[t]]
  ELSE Unlocked

\* the n-th thread of the chain t, Wanted(t), Wanted(Wanted(t)), ...
RECURSIVE Follow(_, _)
Follow(t, n) ==
  IF n = 0 THEN t
  ELSE LET u == Follow(t, n - 1)
       IN  IF u = Unlocked THEN Unlocked ELSE Wanted(u)

\* t spins on a lock whose holder spins, in turn, on a lock held by t
InCycle(t) == \E n \in 1 .. NTHREADS : Follow(t, n) = t

\* positions of bget between the increment of refcnt and acquiresleep
ClaimedPcs == {"ss_rel_master", "ss_rel_home", "st_rel_donor", "st_rel_home",
               "st_rel_master", "acq_sleep"}

\* positions of the miss path of bget
MissPcs == {"acq_master", "scan", "acq_donor", "donor_check",
            "f_rel_master", "f_rel_home"}

\* the holds on b that are outstanding: a bget whose brelse has not yet
\* decremented, and the pins not yet undone
RECURSIVE SumPins(_, _)
SumPins(b, n) == IF n = 0 THEN 0 ELSE pins[n][b] + SumPins(b, n - 1)

Holds(b) ==
  Cardinality({t \in Threads : slock[b] = t})
  + Cardinality({t \in Threads : pc[t] \in ClaimedPcs /\ bp[t] = b})
  + Cardinality({t \in Threads : pc[t] \in {"brelse_acq", "brelse_dec"} /\ bp[t] = b})
  + SumPins(b, NTHREADS)

\* the step in which thread t makes its buffer bp[t] the buffer of a new block
ClaimStep(t) ==
  /\ pc[t] \in {"scan", "donor_check"}
  /\ pc'[t] \in {"ss_rel_master", "st_rel_donor"}

\* the step in which bread returns to thread t
ReturnStep(t) == pc[t] \in {"bread_check", "disk_read"} /\ pc'[t] = "idle"

\* ---------------------------------------------------------------- claims

\* C1: no deadlock.  No reachable state has a set of threads each spinning
\* for a bucket lock or the master lock that another thread of the set holds.
NoLockCycle == \A t \in Threads : ~InCycle(t)

\* C2: uniqueness.  In every reachable state no two buffers carrying the same
\* (dev, blockno) are both valid or in use.
Uniqueness ==
  \A b1, b2 \in Slots :
    (b1 # b2 /\ SameKey(b1, b2)) => ~(Active(b1) /\ Active(b2))

\* C2 witness: two threads have asked for the same block, both were given the
\* same buffer, while another buffer carries the same key unused.
UniquenessWitness ==
  \E t1, t2 \in Threads, b1, b2 \in Slots :
    /\ t1 # t2 /\ b1 # b2 /\ SameKey(b1, b2)
    /\ bp[t1] = b1 /\ bp[t2] = b1
    /\ pc[t1] = "disk_read" /\ pc[t2] = "acq_sleep"
    /\ refcnt[b1] = 2

\* C3: mutual exclusion per block.  The sleep-locks of buffers carrying one
\* (dev, blockno) are never held by two threads at once, so a second bread of
\* a held block cannot return before the holder's brelse.
MutualExclusion ==
  \A b1, b2 \in Slots :
    (slock[b1] # Unlocked /\ slock[b2] # Unlocked /\ SameKey(b1, b2))
      => slock[b1] = slock[b2]

\* C3 witness: a thread has returned from bread holding b and another thread's
\* bread of the same block waits in acquiresleep.
MutualExclusionWitness ==
  \E t1, t2 \in Threads, b \in Slots :
    /\ t1 # t2
    /\ slock[b] = t1 /\ pc[t1] = "idle"
    /\ pc[t2] = "acq_sleep" /\ bp[t2] = b
    /\ adev[t2] = dev[b] /\ ablk[t2] = blockno[b]

\* C4: reference accounting.  refcnt is never negative and equals the number
\* of outstanding holds of the buffer.
RefAccounting == \A b \in Slots : refcnt[b] >= 0 /\ refcnt[b] = Holds(b)

\* C4 witness: a buffer held by one thread, awaited by another and pinned.
RefAccountingWitness ==
  \E b \in Slots, t \in Threads :
    /\ refcnt[b] = 3
    /\ pins[t][b] = 1
    /\ pc[t] = "brelse_acq" /\ bp[t] = b

\* C5: no premature reuse.  A step that gives a buffer a new identity, or
\* changes dev or blockno or resets valid, finds refcnt = 0 and no hold on it.
NoPrematureReuse ==
  [][\A b \in Slots :
       ((\E t \in Threads : ClaimStep(t) /\ bp[t] = b)
          \/ dev'[b] # dev[b] \/ blockno'[b] # blockno[b]
          \/ (valid[b] /\ ~valid'[b]))
       => (refcnt[b] = 0 /\ Holds(b) = 0)]_vars

\* C5 witness: a miss has just claimed a buffer after passing over a buffer of
\* lower index that is pinned but locked by nobody.
NoPrematureReuseWitness ==
  \E t, u \in Threads, b \in Slots :
    /\ pc[t] \in {"ss_rel_master", "st_rel_donor"}
    /\ b < bp[t]
    /\ pins[u][b] > 0 /\ slock[b] = Unlocked /\ refcnt[b] = 1

\* C6: postcondition of bread.  When bread returns b to thread t, b carries
\* the requested (dev, blockno), is valid, has refcnt >= 1 and its sleep-lock
\* is held by t.
ReadPostcondition ==
  [][\A t \in Threads :
       ReturnStep(t) =>
         /\ dev'[bp[t]] = adev[t]
         /\ blockno'[bp[t]] = ablk[t]
         /\ valid'[bp[t]]
         /\ refcnt'[bp[t]] >= 1
         /\ slock'[bp[t]] = t]_vars

\* C6 witness: a thread is back from bread with a buffer of device 1 while a
\* buffer with the same block number on device 0 is valid as well.
ReadPostconditionWitness ==
  \E t \in Threads, b1, b2 \in Slots :
    /\ pc[t] = "idle" /\ slock[b1] = t
    /\ valid[b1] /\ dev[b1] = 1
    /\ valid[b2] /\ dev[b2] = 0 /\ blockno[b2] = blockno[b1]

\* C7: exhaustion.  With every buffer in use for good, a bread that misses
\* reaches the panic: it is never left spinning for ever on a lock.  (Here
\* every thread spins in a cycle, so no refcnt can change any more.)
ExhaustionReachesPanic ==
  ~(/\ AllBusy
    /\ \E t \in Threads : pc[t] \in MissPcs
    /\ \A u \in Threads : InCycle(u))

\* C8: the panic of bget is reached only if, at some instant of that call,
\* every buffer of the pool had refcnt > 0.
PanicOnlyWhenFull == \A t \in Threads : pc[t] = "panic_nobuf" => full[t]

\* C9: the hit path avoids I/O.  A buffer gets at most one transfer-in per
\* identity, and a thread goes to the disk only for a buffer that is not valid
\* and was not read since its identity was assigned.
AtMostOneRead ==
  /\ \A b \in Slots : nread[b] <= 1 /\ (valid[b] => nread[b] = 1)
  /\ \A t \in Threads :
       pc[t] = "disk_read" => (~valid[bp[t]] /\ nread[bp[t]] = 0)

\* C9 witness: a second reader holds a buffer that was read once and is about
\* to return it without a transfer.
AtMostOneReadWitness ==
  \E t, u \in Threads, b \in Slots :
    /\ t # u
    /\ pc[t] = "bread_check" /\ bp[t] = b /\ valid[b] /\ nread[b] = 1
    /\ pc[u] = "brelse_dec" /\ bp[u] = b

\* the lowest index of a buffer with refcnt = 0; NBUF when there is none
LowestFree ==
  IF \E b \in Slots : refcnt[b] = 0
  THEN CHOOSE b \in Slots : refcnt[b] = 0 /\ \A c \in Slots : c < b => refcnt[c] # 0
  ELSE NBUF

\* C10: reclamation on a miss, when calls do not overlap.  A miss claims the
\* buffer of lowest index with refcnt = 0, gives it the requested identity
\* with refcnt = 1 and valid = 0; it ends its scan without a victim only when
\* no buffer has refcnt = 0; and it returns after one transfer-in.
Reclamation ==
  [][\A t \in Threads :
       /\ ClaimStep(t) =>
            /\ bp[t] = LowestFree
            /\ dev'[bp[t]] = adev[t] /\ blockno'[bp[t]] = ablk[t]
            /\ refcnt'[bp[t]] = 1 /\ ~valid'[bp[t]] /\ nread'[bp[t]] = 0
       /\ (pc[t] = "scan" /\ pc'[t] = "f_rel_master") => LowestFree = NBUF
       /\ (pc[t] \in MissPcs /\ pc'[t] = "panic_nobuf") => LowestFree = NBUF
       /\ (pc[t] = "bread_check" /\ ~valid[bp[t]]) => pc'[t] = "disk_read"
       /\ ReturnStep(t) => nread'[bp[t]] = 1]_vars

\* C10 witness: a miss has just reclaimed buffer 1, which a brelse had set
\* free, because buffer 0 is still in use.
ReclamationWitness ==
  \E t \in Threads :
    /\ pc[t] \in {"ss_rel_master", "st_rel_donor"}
    /\ bp[t] = 1 /\ refcnt[0] > 0
    /\ Quiet(t)

\* the bucket locks thread t holds
HeldBuckets(t) == {i \in Buckets : lock[i] = t}

\* C11: a protocol violation is fatal and has no effect.  bwrite starts its
\* transfer and brelse releases the sleep-lock only for the thread that holds
\* it; the step into the panic of bwrite or brelse changes no lock, no
\* refcnt, no identity, no valid flag, no list and starts no transfer.
ProtocolViolationFatal ==
  [][\A t \in Threads :
       /\ (pc[t] = "idle" /\ pc'[t] \in {"disk_write", "brelse_acq"})
            => slock[bp'[t]] = t
       /\ (pc[t] = "idle" /\ pc'[t] = "brelse_acq")
            => \A b \in Slots : (slock'[b] # slock[b]) => slock[b] = t
       /\ (pc[t] = "idle" /\ pc'[t] \in {"panic_bwrite", "panic_brelse"})
            => UNCHANGED <<dev, blockno, valid, refcnt, next, prev, lock,
                           master, slock, nread, pins>>]_vars

\* C11 witness: a thread has panicked in brelse on a buffer whose sleep-lock
\* another thread holds (the caller holds none), and the holder still has it.
ProtocolViolationWitness ==
  \E t, u \in Threads, b \in Slots :
    /\ t # u
    /\ pc[t] = "panic_brelse"
    /\ \A c \in Slots : slock[c] # t
    /\ slock[b] = u /\ refcnt[b] >= 1

\* C12: lock ordering.  A thread holds at most one bucket lock, or at most
\* two while it holds the master lock; it acquires the master lock holding
\* its home bucket lock and no other, and it acquires a second bucket lock
\* only while it holds the master lock.
LockOrdering ==
  [][\A t \in Threads :
       /\ Cardinality({i \in Buckets : lock'[i] = t})
            <= (IF master' = t THEN 2 ELSE 1)
       /\ (master # t /\ master' = t) => HeldBuckets(t) = {HASH(ablk[t])}
       /\ \A i \in Buckets :
            (lock[i] # t /\ lock'[i] = t /\ HeldBuckets(t) # {})
              => (master = t /\ HeldBuckets(t) = {HASH(ablk[t])})]_vars

\* C12 witness: a thread holds the master lock, its home bucket lock and a
\* donor bucket lock.
LockOrderingWitness ==
  \E t \in Threads :
    /\ master = t
    /\ Cardinality(HeldBuckets(t)) = 2
    /\ pc[t] = "donor_check"

\* the positions at which a thread waits for a sleep-lock or for the disk
BlockingPcs == {"acq_sleep", "disk_read", "disk_write"}

\* C13: no structural lock across a blocking point.  A thread that acquires
\* a sleep-lock or is inside a disk transfer holds neither a bucket lock nor
\* the master lock.
NoSpinlockWhileBlocking ==
  \A t \in Threads :
    pc[t] \in BlockingPcs => (master # t /\ HeldBuckets(t) = {})

\* C13 witness: a thread that stole a buffer waits for its sleep-lock, which
\* another thread holds, while a third party of the pool is on the disk.
NoSpinlockWhileBlockingWitness ==
  \E t, u \in Threads :
    /\ t # u
    /\ pc[t] = "acq_sleep" /\ slock[bp[t]] = u
    /\ pc[u] \in {"disk_read", "disk_write"}

\* the buffers met on the way from node n to the head of bucket h, following
\* next for at most k steps
RECURSIVE ListFrom(_, _, _)
ListFrom(n, h, k) ==
  IF n = Head(h) \/ k = 0 THEN {} ELSE {n} \cup ListFrom(next[n], h, k - 1)

\* the buffers in the list of bucket h
Members(h) == ListFrom(next[Head(h)], h, NBUF)

\* the bucket of the first head met from node n, following next for at most
\* k steps; NBUCKET when no head is met
RECURSIVE HeadAfter(_, _)
HeadAfter(n, k) ==
  IF n \notin Slots THEN n - NBUF
  ELSE IF k = 0 THEN NBUCKET
  ELSE HeadAfter(next[n], k - 1)

\* the bucket whose list node n is in: a head is in its own
ListOf(n) == HeadAfter(n, NBUF)

\* C14: bucket membership matches the key.  A buffer whose list's bucket
\* lock nobody holds is in the list of bucket HASH(blockno), and in no other;
\* a buffer a miss has re-keyed is in the home list, under its new key, when
\* the miss path is about to release the home bucket lock.
MembershipMatchesKey ==
  /\ \A b \in Slots :
       (ListOf(b) \in Buckets => lock[ListOf(b)] = Unlocked)
         => /\ ListOf(b) = HASH(blockno[b])
            /\ b \in Members(HASH(blockno[b]))
  /\ \A t \in Threads :
       pc[t] \in {"ss_rel_home", "st_rel_home"}
         => /\ blockno[bp[t]] = ablk[t]
            /\ bp[t] \in Members(HASH(ablk[t]))

\* C14 witness: a miss has moved a buffer out of bucket 0, where binit put
\* it, into the bucket of its new key and is about to release the home lock.
MembershipMatchesKeyWitness ==
  \E t \in Threads :
    /\ pc[t] = "st_rel_home"
    /\ HASH(ablk[t]) # 0
    /\ bp[t] \in Members(HASH(ablk[t]))
    /\ Members(0) # {}

\* C15: structural data is changed under the owning lock.  The thread that
\* changes the refcnt of a buffer holds the lock of the bucket whose list
\* contains the buffer; the thread that changes a link of a node holds the
\* master lock and the bucket locks of the lists the node is in before and
\* after the change.
MutatedUnderOwningLock ==
  [][/\ \A b \in Slots :
          refcnt'[b] # refcnt[b]
            => \E t \in Threads :
                 /\ pc'[t] # pc[t]
                 /\ ListOf(b) \in Buckets
                 /\ lock[ListOf(b)] = t
     /\ \A n \in Nodes :
          (next'[n] # next[n] \/ prev'[n] # prev[n])
            => \E t \in Threads :
                 /\ pc'[t] # pc[t]
                 /\ master = t
                 /\ ListOf(n) \in Buckets /\ lock[ListOf(n)] = t
                 /\ ListOf(n)' \in Buckets /\ lock[ListOf(n)'] = t
                 /\ lock[HASH(blockno[bp[t]])] = t
                 /\ lock[HASH(ablk[t])] = t]_vars

\* C15 witness: a thread that holds the master lock, its home lock and the
\* donor lock has just moved a buffer between the two lists.
MutatedUnderOwningLockWitness ==
  \E t \in Threads :
    /\ pc[t] = "st_rel_donor"
    /\ master = t
    /\ lock[ch[t]] = t /\ lock[HASH(ablk[t])] = t /\ ch[t] # HASH(ablk[t])
    /\ bp[t] \in Members(HASH(ablk[t]))
    /\ refcnt[bp[t]] = 1
    /\ \E b \in Slots : b # bp[t] /\ refcnt[b] >= 1

\* the sum of the lengths of the lists of buckets 0 .. i-1
RECURSIVE SumLengths(_)
SumLengths(i) ==
  IF i = 0 THEN 0 ELSE Cardinality(Members(i - 1)) + SumLengths(i - 1)

\* C20: the lists partition the pool.  Between the steps of the threads (a
\* move between two lists is one step) every buffer is in exactly one list,
\* next and prev are inverse on every node, a walk from a head along next
\* meets buffers only, and the lengths of the lists sum to NBUF.
ListsPartitionPool ==
  /\ \A n \in Nodes : prev[next[n]] = n /\ next[prev[n]] = n
  /\ \A b \in Slots : Cardinality({h \in Buckets : b \in Members(h)}) = 1
  /\ \A h \in Buckets : Members(h) \subseteq Slots
  /\ SumLengths(NBUCKET) = NBUF

DonorLockOnlyForFree ==
  [][\A t \in Threads :
       (pc[t] = "scan" /\ pc'[t] = "acq_donor") => refcnt[bp[t]] = 0]_vars

\* C18: after a steal the master lock is released before the home bucket
\* lock, so that a thread that holds the master lock holds a bucket lock.
MasterNeverWithoutBucket ==
  \A t \in Threads : master = t => HeldBuckets(t) # {}

ListsPartitionPoolWitness ==
  \E t \in Threads :
    /\ pc[t] = "st_rel_donor"
    /\ HASH(ablk[t]) = 0
    /\ Cardinality(Members(0)) = 1
    /\ Cardinality(Members(1)) = NBUF - 1

====
